---- MODULE Spec2Model ----
(***************************************************************************)
(* State-machine model of hdPrman's MaterialX material filter              *)
(* (third_party/renderman-24/plugin/hdPrman/matfiltMaterialX.cpp).         *)
(*                                                                         *)
(* One behaviour is one process that calls MatfiltMaterialX on a material  *)
(* network, and then once more on an independent copy of the same input.   *)
(* The entry point is split at its three calls: the entry checks together  *)
(* with the construction of the MaterialX document, _UpdateTextureNodes,   *)
(* _UpdateNetwork and _TransformTerminalNode.                              *)
(***************************************************************************)
EXTENDS Integers, Sequences, FiniteSets, TLC

VARIABLES
    pc,          \* position inside MatfiltMaterialX
    net,         \* the HdMaterialNetwork behind netInterface
    net0,        \* the input network (each invocation starts from a copy)
    out1,        \* output network of the first invocation
    run,         \* number of the current invocation
    sdr,         \* SdrRegistry: process-wide set of shader node entries
    nTmpFile,    \* ArchMakeTmpFileName's process-wide counter
    diags,       \* TF_WARN calls of the current invocation: [line, subject]
    mxDoc,       \* the MaterialX document of the current invocation
    texPaths,    \* hdTextureNodePaths of the current invocation
    genLog,      \* nodes _GenMaterialXShaderCode was called for, in order
    compLog,     \* nodes _CompileOslSource was called for, in order
    genNames,    \* the shader names given to _GenMaterialXShaderCode, in order
    located,     \* what _FindGraphAndNodeByName returned when called alone
    tmpFiles,    \* the files written by _CompileOslSource: path -> content
    env          \* what the collaborators do: fixed for the whole behaviour

vars == <<pc, net, net0, out1, run, sdr, nTmpFile, diags, mxDoc, texPaths,
          genLog, compLog, genNames, located, tmpFiles, env>>

(***************************************************************************)
(* Bounds of the model.                                                    *)
(***************************************************************************)
MaxTermInputs == 3   \* input connections authored on the terminal node
MaxUpEdges == 2   \* connections among the upstream nodes
MaxFaults == 1   \* upstream nodes whose generation/compilation misbehaves

(***************************************************************************)
(* _tokens (lines 62-105) and the other names the file uses.               *)
(***************************************************************************)
EmptyToken == ""
mtlx == "mtlx"
OSL == "OSL"
RmanCpp == "RmanCpp"
ND_standard_surface_surfaceshader == "ND_standard_surface_surfaceshader"
ND_UsdPreviewSurface_surfaceshader == "ND_UsdPreviewSurface_surfaceshader"
SS_Adapter == "StandardSurfaceParameters"
USD_Adapter == "UsdPreviewSurfaceParameters"
PxrSurface == "PxrSurface"
surface == "surface"

(***************************************************************************)
(* Generic helpers on finite functions and sequences.                      *)
(***************************************************************************)
EmptyFn == [x \in {} |-> x]
Put(f, k, v) == [x \in (DOMAIN f) \cup {k} |-> IF x = k THEN v ELSE f[x]]
Drop(f, k) == [x \in (DOMAIN f) \ {k} |-> f[x]]
Range(s) == {s[i] : i \in DOMAIN s}
Count(s, P(_)) == Cardinality({i \in DOMAIN s : P(s[i])})

(***************************************************************************)
(* Node names are paths: <<container segment, node segment>>.              *)
(***************************************************************************)
GetName(path) == path[2]
GetParentName(path) == path[1]

TerminalNode == <<"Mat", "Surface">>
MaterialPrimName == "Mat"
NodeA == <<"NG", "A">>
NodeB == <<"NG", "B">>
NodeC == <<"NG", "C">>
NodeU == <<"NG", "U">>       \* never a node of the network
NodeA2 == <<"NG2", "A">>     \* the node segment of NodeA in another container
NoNode == <<"", "">>
\* the node name as text, as TF_WARN prints it
PathString(n) == "/" \o MaterialPrimName \o "/" \o n[1] \o "/" \o n[2]

(***************************************************************************)
(* HdMaterialNetworkInterface over a network                               *)
(*   [nodes: name -> [type, params, conns], terminals: name -> connection] *)
(* An input holds a vector of connections [upstreamNodeName,               *)
(* upstreamOutputName].  Setters create the node they address, as          *)
(* HdMaterialNetwork2Interface does (nodes[nodeName]).                     *)
(***************************************************************************)
NewNode == [type |-> EmptyToken, params |-> EmptyFn, conns |-> EmptyFn]
Conn(n, o) == [upstreamNodeName |-> n, upstreamOutputName |-> o]
NodeOf(nw, n) == IF n \in DOMAIN nw.nodes THEN nw.nodes[n] ELSE NewNode

GetNodeType(nw, n) ==
    IF n \in DOMAIN nw.nodes THEN nw.nodes[n].type ELSE EmptyToken

SetNodeType(nw, n, t) ==
    [nw EXCEPT !.nodes = Put(nw.nodes, n, [NodeOf(nw, n) EXCEPT !.type = t])]

\* The interface enumerates names in an order of its own (env.tokenOrder).
GetNodeInputConnectionNames(nw, n) ==
    SelectSeq(env.tokenOrder, LAMBDA c : c \in DOMAIN NodeOf(nw, n).conns)

GetNodeInputConnection(nw, n, c) ==
    IF c \in DOMAIN NodeOf(nw, n).conns THEN NodeOf(nw, n).conns[c] ELSE <<>>

SetNodeInputConnection(nw, n, c, cs) ==
    [nw EXCEPT !.nodes =
        Put(nw.nodes, n,
            [NodeOf(nw, n) EXCEPT !.conns = Put(NodeOf(nw, n).conns, c, cs)])]

DeleteNodeInputConnection(nw, n, c) ==
    IF n \in DOMAIN nw.nodes
    THEN [nw EXCEPT !.nodes[n].conns = Drop(nw.nodes[n].conns, c)]
    ELSE nw

GetAuthoredNodeParameterNames(nw, n) ==
    SelectSeq(env.tokenOrder, LAMBDA p : p \in DOMAIN NodeOf(nw, n).params)

EmptyValue == [holds |-> "empty", val |-> ""]
GetNodeParameterValue(nw, n, p) ==
    IF p \in DOMAIN NodeOf(nw, n).params
    THEN NodeOf(nw, n).params[p] ELSE EmptyValue

SetNodeParameterValue(nw, n, p, v) ==
    [nw EXCEPT !.nodes =
        Put(nw.nodes, n,
            [NodeOf(nw, n) EXCEPT !.params = Put(NodeOf(nw, n).params, p, v)])]

DeleteNodeParameter(nw, n, p) ==
    IF n \in DOMAIN nw.nodes
    THEN [nw EXCEPT !.nodes[n].params = Drop(nw.nodes[n].params, p)]
    ELSE nw

DeleteNode(nw, n) == [nw EXCEPT !.nodes = Drop(nw.nodes, n)]

\* <<found, connection>>
GetTerminalConnection(nw, t) ==
    IF t \in DOMAIN nw.terminals
    THEN <<TRUE, nw.terminals[t]>>
    ELSE <<FALSE, Conn(NoNode, EmptyToken)>>

SetTerminalConnection(nw, t, c) ==
    [nw EXCEPT !.terminals = Put(nw.terminals, t, c)]

(***************************************************************************)
(* SdrRegistry: a set of entries [identifier, sourceType, inputs,          *)
(* outputs].  NoSdrNode is the null SdrShaderNodeConstPtr.                 *)
(***************************************************************************)
NoSdrNode == [identifier |-> EmptyToken, sourceType |-> EmptyToken,
              inputs |-> {}, outputs |-> {}, null |-> TRUE]
SdrEntry(id, st, ins, outs) ==
    [identifier |-> id, sourceType |-> st, inputs |-> ins, outputs |-> outs,
     null |-> FALSE]

Pick(S) == IF S = {} THEN NoSdrNode ELSE CHOOSE e \in S : TRUE

GetShaderNodeByIdentifier(reg, id) ==
    Pick({e \in reg : e.identifier = id})

GetShaderNodeByIdentifierAndType(reg, id, st) ==
    Pick({e \in reg : e.identifier = id /\ e.sourceType = st})

\* The entries every process starts with: the MaterialX standard library
\* (source type mtlx), the two adapter shaders and PxrSurface.
ND_image_color3 == "ND_image_color3"
ND_multiply_color3 == "ND_multiply_color3"
ND_surface == "ND_surface"
StdRegistry ==
    { SdrEntry(ND_standard_surface_surfaceshader, mtlx,
               {"base", "emission", "subsurface", "normal"}, {"out"}),
      SdrEntry(ND_UsdPreviewSurface_surfaceshader, mtlx,
               {"base", "emission", "subsurface", "normal"}, {"out"}),
      SdrEntry(ND_surface, mtlx, {"base"}, {"out"}),
      SdrEntry(ND_image_color3, mtlx, {"file", "texcoord"}, {"out"}),
      SdrEntry(ND_multiply_color3, mtlx, {"in1", "in2"}, {"out"}),
      SdrEntry(SS_Adapter, OSL,
               {"base", "emission_value", "subsurface_value", "input_normal"},
               {"diffuseGainOut", "glowGainOut"}),
      SdrEntry(USD_Adapter, OSL,
               {"base", "emission", "subsurface", "normal"},
               {"diffuseGainOut", "bumpNormalOut"}),
      SdrEntry(PxrSurface, RmanCpp,
               {"diffuseGain", "glowGain", "bumpNormal", "presence"}, {}) }

\* SdrRegistry::GetShaderNodeFromAsset: the entry parsed from the compiled
\* file, added to the registry.  Its identifier is derived from the asset
\* path, the sub-identifier and the source type.  A file that holds no
\* compiled shader yields an entry that declares nothing.
\* <<registry, node>>
GetShaderNodeFromAsset(reg, files, path, subId, st) ==
    LET e == SdrEntry(path \o "<" \o subId \o "><" \o st \o ">", st, {},
                      IF path \in DOMAIN files /\ files[path].valid
                      THEN files[path].outputs ELSE {})
    IN  <<reg \cup {e}, e>>

(***************************************************************************)
(* The MaterialX document: [graphs, top].  graphs is the sequence of node  *)
(* graphs in creation order, each [name, nodes: node name -> [category,    *)
(* nodedef, inputs: name -> [type, value, node]]]; top is the set of       *)
(* top-level nodes (the material and its surface shader).                  *)
(***************************************************************************)
NoDoc == [graphs |-> <<>>, top |-> {}]

\* index of the graph called name, 0 for none (Document::getNodeGraph)
getNodeGraph(doc, name) ==
    IF \E i \in DOMAIN doc.graphs : doc.graphs[i].name = name
    THEN CHOOSE i \in DOMAIN doc.graphs : doc.graphs[i].name = name
    ELSE 0

graphHasNode(doc, g, nodeName) ==
    g # 0 /\ nodeName \in DOMAIN doc.graphs[g].nodes

\* A faulty _FindGraphAndNodeByName without the look at the last graph of
\* lines 127-133; C15 tells it from the code's.
FindGraphAndNodeByNameInOrder(doc, mxNodeGraphName, mxNodeName) ==
    LET hinted == getNodeGraph(doc, mxNodeGraphName)
        n == Len(doc.graphs)
    IN  IF graphHasNode(doc, hinted, mxNodeName)
        THEN [graph |-> hinted, found |-> TRUE]
        ELSE IF \E i \in 1..n : graphHasNode(doc, i, mxNodeName)
        THEN [graph |-> CHOOSE i \in 1..n :
                            /\ graphHasNode(doc, i, mxNodeName)
                            /\ \A j \in 1..(i-1) :
                                   ~graphHasNode(doc, j, mxNodeName),
              found |-> TRUE]
        ELSE [graph |-> hinted, found |-> FALSE]

\* _FindGraphAndNodeByName: [graph, found]; the node found is nodeName of
\* graph.  mxNode is null on entry at both call sites.
FindGraphAndNodeByName(doc, mxNodeGraphName, mxNodeName) ==
    LET hinted == getNodeGraph(doc, mxNodeGraphName)
        n == Len(doc.graphs)
    IN  IF graphHasNode(doc, hinted, mxNodeName)
        THEN [graph |-> hinted, found |-> TRUE]
        ELSE IF n > 0 /\ graphHasNode(doc, n, mxNodeName)
        THEN [graph |-> n, found |-> TRUE]
        ELSE IF \E i \in 1..n : graphHasNode(doc, i, mxNodeName)
        THEN [graph |-> CHOOSE i \in 1..n :
                            /\ graphHasNode(doc, i, mxNodeName)
                            /\ \A j \in 1..(i-1) :
                                   ~graphHasNode(doc, j, mxNodeName),
              found |-> TRUE]
        ELSE [graph |-> hinted, found |-> FALSE]

(***************************************************************************)
(* Generated source and compiled files are records; EmptySource is         *)
(* mx::EMPTY_STRING and EmptyPath the empty path.                          *)
(***************************************************************************)
EmptySource == [text |-> "", outputs |-> {}, compiles |-> FALSE]
EmptyPath == ""
Diag(line, subject) == [line |-> line, subject |-> subject]

\* mx::createShader for the node found: what the generator does with a
\* node of the document is the environment's (env.outcome).
OutcomeOf(docNode) ==
    IF docNode \in DOMAIN env.outcome THEN env.outcome[docNode] ELSE "ok"

createShader(shaderName, docNode) ==
    IF OutcomeOf(docNode) = "genEmpty"
    THEN EmptySource
    ELSE [text |-> "shader " \o shaderName,
          outputs |-> IF OutcomeOf(docNode) = "noOutput" THEN {} ELSE {"out"},
          compiles |-> OutcomeOf(docNode) # "compilerError"]

\* _GenMaterialXShaderCode: [src, diags]
GenMaterialXShaderCode(doc, shaderName, mxNodeName, mxNodeGraphName) ==
    LET loc == FindGraphAndNodeByName(doc, mxNodeGraphName, mxNodeName)
    IN  IF loc.graph = 0
        THEN [src |-> EmptySource, diags |-> <<Diag(175, mxNodeGraphName)>>]
        ELSE IF ~loc.found
        THEN [src |-> EmptySource, diags |-> <<Diag(181, mxNodeName)>>]
        ELSE LET mxShader ==
                    createShader(shaderName,
                                 <<doc.graphs[loc.graph].name, mxNodeName>>)
             IN  IF mxShader # EmptySource
                 THEN [src |-> mxShader, diags |-> <<>>]
                 ELSE [src |-> EmptySource,
                       diags |-> <<Diag(194, mxNodeName)>>]

\* ArchMakeTmpFileName(prefix, suffix): unique for every call of the process
ArchMakeTmpFileName(prefix, suffix, n) ==
    "/tmp/" \o prefix \o "." \o ToString(n) \o suffix

\* _CompileOslSource: [path, diags, nTmpFile, files].  The result of
\* compile_buffer is not looked at: what it left in the buffer is written.
CompileOslSource(name, oslSource, n, files) ==
    IF ~env.oslSupport
    THEN [path |-> EmptyPath, diags |-> <<Diag(320, name)>>,
          nTmpFile |-> n, files |-> files]
    ELSE LET oslCompiledSource ==
                 IF oslSource.compiles
                 THEN [valid |-> TRUE, outputs |-> oslSource.outputs]
                 ELSE [valid |-> FALSE, outputs |-> {}]
             compiledFilePath == ArchMakeTmpFileName("MX." \o name, ".oso", n)
         IN  IF ("MX." \o name) \in env.unwritable
             THEN [path |-> EmptyPath,
                   diags |-> <<Diag(310, compiledFilePath)>>,
                   nTmpFile |-> n + 1, files |-> files]
             ELSE [path |-> compiledFilePath, diags |-> <<>>,
                   nTmpFile |-> n + 1,
                   files |-> Put(files, compiledFilePath, oslCompiledSource)]

(***************************************************************************)
(* Helpers to update the material network.                                 *)
(***************************************************************************)
\* A faulty _GetAdapterNodeType that falls back to the standard surface
\* adapter instead of warning; C7 tells it from the code's.
GetAdapterNodeTypeFallback(hdNodeType) ==
    IF hdNodeType = ND_UsdPreviewSurface_surfaceshader
    THEN [type |-> USD_Adapter, diags |-> <<>>]
    ELSE [type |-> SS_Adapter, diags |-> <<>>]

\* _GetAdapterNodeType: [type, diags]
GetAdapterNodeType(hdNodeType) ==
    IF hdNodeType = ND_standard_surface_surfaceshader
    THEN [type |-> SS_Adapter, diags |-> <<>>]
    ELSE IF hdNodeType = ND_UsdPreviewSurface_surfaceshader
    THEN [type |-> USD_Adapter, diags |-> <<>>]
    ELSE [type |-> EmptyToken, diags |-> <<Diag(212, hdNodeType)>>]

\* A faulty _GetUpdatedInputToken that forgets the normal input; C8 tells it
\* from the code's.
GetUpdatedInputTokenNoNormal(currInputName) ==
    CASE currInputName = "emission"   -> "emission_value"
      [] currInputName = "subsurface" -> "subsurface_value"
      [] OTHER                        -> EmptyToken

\* _GetUpdatedInputToken
GetUpdatedInputToken(currInputName) ==
    CASE currInputName = "emission"   -> "emission_value"
      [] currInputName = "subsurface" -> "subsurface_value"
      [] currInputName = "normal"     -> "input_normal"
      [] OTHER                        -> EmptyToken

\* _HasNode
HasNode(nw, nodeName) == GetNodeType(nw, nodeName) # EmptyToken

\* every connection of a node, in the order the two loops read them
AllInputConnections(nw, n) ==
    LET names == GetNodeInputConnectionNames(nw, n)
        F[i \in 0..Len(names)] ==
            IF i = 0 THEN <<>>
            ELSE F[i-1] \o GetNodeInputConnection(nw, n, names[i])
    IN  F[Len(names)]

\* _GatherNodeGraphNodes over s = [net, diags, nodesToRemove,
\* visitedNodeNames, ...]: upstreamNodeNames is nodesToRemove at its only
\* call site.
RECURSIVE GatherNodeGraphNodes(_, _)
RECURSIVE GatherConnections(_, _)
GatherConnections(s, cs) ==
    IF cs = <<>> THEN s
    ELSE LET upstreamNodeName == Head(cs).upstreamNodeName
         IN  IF ~HasNode(s.net, upstreamNodeName)
             THEN GatherConnections(
                     [s EXCEPT !.diags = Append(@, Diag(260, PathString(upstreamNodeName)))],
                     Tail(cs))
             ELSE IF upstreamNodeName \in s.visitedNodeNames
             THEN GatherConnections(s, Tail(cs))
             ELSE LET s1 == [s EXCEPT !.visitedNodeNames =
                                           @ \cup {upstreamNodeName}]
                      s2 == GatherNodeGraphNodes(s1, upstreamNodeName)
                  IN  GatherConnections(
                         [s2 EXCEPT !.nodesToRemove =
                                        @ \cup {upstreamNodeName}],
                         Tail(cs))

GatherNodeGraphNodes(s, hdNodeName) ==
    GatherConnections(s, AllInputConnections(s.net, hdNodeName))

\* _DeleteAllInputConnections
RECURSIVE DeleteConnections(_, _, _)
DeleteConnections(nw, nodeName, cNames) ==
    IF cNames = <<>> THEN nw
    ELSE DeleteConnections(DeleteNodeInputConnection(nw, nodeName, Head(cNames)),
                           nodeName, Tail(cNames))

DeleteAllInputConnections(nw, nodeName) ==
    DeleteConnections(nw, nodeName, GetNodeInputConnectionNames(nw, nodeName))

\* _DeleteAllParameters
RECURSIVE DeleteParameters(_, _, _)
DeleteParameters(nw, nodeName, pNames) ==
    IF pNames = <<>> THEN nw
    ELSE DeleteParameters(DeleteNodeParameter(nw, nodeName, Head(pNames)),
                          nodeName, Tail(pNames))

DeleteAllParameters(nw, nodeName) ==
    DeleteParameters(nw, nodeName, GetAuthoredNodeParameterNames(nw, nodeName))

(***************************************************************************)
(* _UpdateNetwork.  s is the function's state: the network, the process    *)
(* state it touches and its three sets.                                    *)
(***************************************************************************)
\* lines 449-466: the connection into the terminal, renamed when the input
\* name is an OSL reserved word
RewireTerminalInput(nw, terminalNodeName, cName, upstreamNodeName, outputName) ==
    LET updatedInputName == GetUpdatedInputToken(cName)
        deletePreviousConnection == updatedInputName # EmptyToken
        inputName == IF deletePreviousConnection THEN updatedInputName
                     ELSE cName
        n1 == SetNodeInputConnection(nw, terminalNodeName, inputName,
                                     <<Conn(upstreamNodeName, outputName)>>)
    IN  IF deletePreviousConnection
        THEN DeleteNodeInputConnection(n1, terminalNodeName, cName)
        ELSE n1

\* lines 383-408: the upstream node was visited before
ReuseNode(s, terminalNodeName, cName, upstreamNodeName, outputName) ==
    LET sdrNode == GetShaderNodeByIdentifier(
                       s.sdr, GetNodeType(s.net, upstreamNodeName))
    IN  IF sdrNode.null THEN s
        ELSE IF outputName \in sdrNode.outputs
        THEN [s EXCEPT !.net = SetNodeInputConnection(
                                   @, terminalNodeName, cName,
                                   <<Conn(upstreamNodeName, outputName)>>)]
        ELSE [s EXCEPT !.diags = Append(@, Diag(404, PathString(upstreamNodeName)))]

\* lines 436-468: the compiled shader becomes the node
ReplaceNode(s, terminalNodeName, cName, upstreamNodeName, outputName, compiledShaderPath) ==
    LET got == GetShaderNodeFromAsset(s.sdr, s.tmpFiles, compiledShaderPath,
                                      mtlx, OSL)
        sdrNode == got[2]
        n1 == SetNodeType(s.net, upstreamNodeName, sdrNode.identifier)
        n2 == IF outputName \in sdrNode.outputs
              THEN RewireTerminalInput(n1, terminalNodeName, cName,
                                       upstreamNodeName, outputName)
              ELSE n1
        n3 == DeleteAllInputConnections(n2, upstreamNodeName)
    IN  [s EXCEPT !.sdr = got[1],
                  !.net = DeleteAllParameters(n3, upstreamNodeName)]

\* lines 429-434, after _CompileOslSource returned comp
AfterCompile(s, comp, terminalNodeName, cName, upstreamNodeName, outputName) ==
    IF comp.path = EmptyPath
    THEN [s EXCEPT !.diags = @ \o comp.diags, !.nTmpFile = comp.nTmpFile,
                   !.tmpFiles = comp.files]
    ELSE ReplaceNode([s EXCEPT !.diags = @ \o comp.diags,
                               !.nTmpFile = comp.nTmpFile,
                               !.tmpFiles = comp.files],
                     terminalNodeName, cName, upstreamNodeName, outputName,
                     comp.path)

\* lines 422-431, after _GenMaterialXShaderCode returned gen
AfterGenerate(s, gen, shaderName, terminalNodeName, cName, upstreamNodeName, outputName) ==
    IF gen.src = EmptySource
    THEN [s EXCEPT !.diags = @ \o gen.diags]
    ELSE AfterCompile(
             [s EXCEPT !.diags = @ \o gen.diags,
                       !.compLog = Append(@, upstreamNodeName)],
             CompileOslSource(shaderName, gen.src, s.nTmpFile, s.tmpFiles),
             terminalNodeName, cName, upstreamNodeName, outputName)

\* lines 416-423: the shader name and the source of the upstream node
Generate(s, terminalNodeName, cName, upstreamNodeName, outputName) ==
    LET mxNodeName == GetName(upstreamNodeName)
        mxNodeGraphName == GetParentName(upstreamNodeName)
        shaderName == mxNodeName \o "Shader"
    IN  AfterGenerate(
            [s EXCEPT !.genLog = Append(@, upstreamNodeName),
                      !.genNames = Append(@, shaderName)],
            GenMaterialXShaderCode(s.mxDoc, shaderName, mxNodeName,
                                   mxNodeGraphName),
            shaderName, terminalNodeName, cName, upstreamNodeName,
            outputName)

\* lines 410-414: the node is visited and kept, what is upstream of it is
\* to be removed
MarkAndGather(s, upstreamNodeName) ==
    [GatherNodeGraphNodes(
         [s EXCEPT !.visitedNodeNames = @ \cup {upstreamNodeName}],
         upstreamNodeName)
     EXCEPT !.nodesToKeep = @ \cup {upstreamNodeName}]

\* lines 410-468: a node seen for the first time
NewNodeStep(s, terminalNodeName, cName, upstreamNodeName, outputName) ==
    Generate(MarkAndGather(s, upstreamNodeName), terminalNodeName, cName,
             upstreamNodeName, outputName)

\* A faulty loop body without the _HasNode check of line 376; C5 tells it
\* from the code's.
ProcessConnectionUnchecked(s, terminalNodeName, cName, currConnection) ==
    LET upstreamNodeName == currConnection.upstreamNodeName
        outputName == currConnection.upstreamOutputName
    IN  IF upstreamNodeName \in s.visitedNodeNames
        THEN ReuseNode(s, terminalNodeName, cName, upstreamNodeName,
                       outputName)
        ELSE NewNodeStep(s, terminalNodeName, cName, upstreamNodeName,
                         outputName)

\* lines 373-469: the body of the inner loop
ProcessConnection(s, terminalNodeName, cName, currConnection) ==
    LET upstreamNodeName == currConnection.upstreamNodeName
        outputName == currConnection.upstreamOutputName
    IN  IF ~HasNode(s.net, upstreamNodeName)
        THEN [s EXCEPT !.diags = Append(@, Diag(378, PathString(upstreamNodeName)))]
        ELSE IF upstreamNodeName \in s.visitedNodeNames
        THEN ReuseNode(s, terminalNodeName, cName, upstreamNodeName,
                       outputName)
        ELSE NewNodeStep(s, terminalNodeName, cName, upstreamNodeName,
                         outputName)

RECURSIVE ProcessConnections(_, _, _, _)
ProcessConnections(s, terminalNodeName, cName, inputConnections) ==
    IF inputConnections = <<>> THEN s
    ELSE ProcessConnections(
             ProcessConnection(s, terminalNodeName, cName,
                               Head(inputConnections)),
             terminalNodeName, cName, Tail(inputConnections))

\* lines 369-470: the outer loop; the vector of an input is read when its
\* turn comes
RECURSIVE ProcessInputs(_, _, _)
ProcessInputs(s, terminalNodeName, cNames) ==
    IF cNames = <<>> THEN s
    ELSE ProcessInputs(
             ProcessConnections(
                 s, terminalNodeName, Head(cNames),
                 GetNodeInputConnection(s.net, terminalNodeName, Head(cNames))),
             terminalNodeName, Tail(cNames))

\* lines 472-478
NodesToDelete(nodesToRemove, nodesToKeep) == nodesToRemove \ nodesToKeep

RemoveNodes(nw, names) ==
    [nw EXCEPT !.nodes = [n \in (DOMAIN nw.nodes) \ names |-> nw.nodes[n]]]

UpdateNetworkState(nw, reg, doc, n, files) ==
    [net |-> nw, sdr |-> reg, mxDoc |-> doc, diags |-> <<>>,
     nTmpFile |-> n, tmpFiles |-> files, genLog |-> <<>>, compLog |-> <<>>,
     genNames |-> <<>>,
     nodesToKeep |-> {}, nodesToRemove |-> {}, visitedNodeNames |-> {}]

\* lines 472-478
RemoveUnkept(s) ==
    [s EXCEPT !.net = RemoveNodes(
         @, NodesToDelete(s.nodesToRemove, s.nodesToKeep))]

UpdateNetwork(s0, terminalNodeName) ==
    RemoveUnkept(
        ProcessInputs(s0, terminalNodeName,
                      GetNodeInputConnectionNames(s0.net, terminalNodeName)))

(***************************************************************************)
(* _TransformTerminalNode: [net, diags]                                    *)
(***************************************************************************)
\* lines 511-522
RECURSIVE RenameParameters(_, _, _)
RenameParameters(nw, terminalNodeName, pNames) ==
    IF pNames = <<>> THEN nw
    ELSE LET pName == Head(pNames)
             updatedName == GetUpdatedInputToken(pName)
             val == GetNodeParameterValue(nw, terminalNodeName, pName)
             n1 == IF updatedName # EmptyToken
                   THEN DeleteNodeParameter(
                            SetNodeParameterValue(nw, terminalNodeName,
                                                  updatedName, val),
                            terminalNodeName, pName)
                   ELSE nw
         IN  RenameParameters(n1, terminalNodeName, Tail(pNames))

\* the declared inputs of an entry, in the order GetInputNames gives them
InputNamesOf(sdrNode) ==
    SelectSeq(env.tokenOrder, LAMBDA x : x \in sdrNode.inputs)

\* A faulty closure wiring that connects every declared input, whether or
\* not the adapter has the output; C9 tells it from the code's.
RECURSIVE ConnectClosureInputsAll(_, _, _, _, _)
ConnectClosureInputsAll(nw, pxrSurfaceNodeName, terminalNodeName, sdrAdapter, inParamNames) ==
    IF inParamNames = <<>> THEN nw
    ELSE ConnectClosureInputsAll(
             SetNodeInputConnection(
                 nw, pxrSurfaceNodeName, Head(inParamNames),
                 <<Conn(terminalNodeName, Head(inParamNames) \o "Out")>>),
             pxrSurfaceNodeName, terminalNodeName, sdrAdapter,
             Tail(inParamNames))

\* lines 531-547
RECURSIVE ConnectClosureInputs(_, _, _, _, _)
ConnectClosureInputs(nw, pxrSurfaceNodeName, terminalNodeName, sdrAdapter, inParamNames) ==
    IF inParamNames = <<>> THEN nw
    ELSE LET inParamName == Head(inParamNames)
             adapterOutParam == inParamName \o "Out"
             n1 == IF adapterOutParam \in sdrAdapter.outputs
                   THEN SetNodeInputConnection(
                            nw, pxrSurfaceNodeName, inParamName,
                            <<Conn(terminalNodeName, adapterOutParam)>>)
                   ELSE nw
         IN  ConnectClosureInputs(n1, pxrSurfaceNodeName, terminalNodeName,
                                  sdrAdapter, Tail(inParamNames))

PxrSurfaceNodeName(terminalNodeName) ==
    <<terminalNodeName[1], terminalNodeName[2] \o "_PxrSurface">>

TransformTerminalNode(nw, reg, terminalNodeName) ==
    LET adapter == GetAdapterNodeType(GetNodeType(nw, terminalNodeName))
        adapterType == adapter.type
        sdrAdapter == GetShaderNodeByIdentifierAndType(reg, adapterType, OSL)
        sdrPxrSurface ==
            GetShaderNodeByIdentifierAndType(reg, PxrSurface, RmanCpp)
    IN  IF sdrAdapter.null
        THEN [net |-> nw,
              diags |-> Append(adapter.diags, Diag(500, adapterType))]
        ELSE LET n1 == SetNodeType(nw, terminalNodeName, adapterType)
                 n2 == IF adapterType # USD_Adapter
                       THEN RenameParameters(
                                n1, terminalNodeName,
                                GetAuthoredNodeParameterNames(
                                    n1, terminalNodeName))
                       ELSE n1
                 pxrSurfaceNodeName == PxrSurfaceNodeName(terminalNodeName)
                 n3 == SetNodeType(n2, pxrSurfaceNodeName, PxrSurface)
                 n4 == ConnectClosureInputs(n3, pxrSurfaceNodeName,
                                            terminalNodeName, sdrAdapter,
                                            InputNamesOf(sdrPxrSurface))
             IN  [net |-> SetTerminalConnection(
                              n4, surface,
                              Conn(pxrSurfaceNodeName, EmptyToken)),
                  diags |-> adapter.diags]

(***************************************************************************)
(* HdMtlxCreateMtlxDocumentFromHdMaterialNetworkInterface: the document    *)
(* holds the surface shader node and the material node at top level and,   *)
(* for every node upstream of the terminal, a node in the graph named      *)
(* after the node's container; image nodes are reported as texture paths.  *)
(***************************************************************************)
IsTextureType(t) == t \in {ND_image_color3}
MxInput(type, value, node) == [type |-> type, value |-> value, node |-> node]

MxNodeFromHd(nw, n) ==
    LET hd == nw.nodes[n]
    IN  [category |-> IF IsTextureType(hd.type) THEN "image" ELSE "node",
         nodedef |-> hd.type,
         inputs |->
            [i \in (DOMAIN hd.params) \cup (DOMAIN hd.conns) |->
                IF i \in DOMAIN hd.conns
                THEN MxInput("", "", GetName(hd.conns[i][1].upstreamNodeName))
                ELSE MxInput(IF hd.params[i].holds = "SdfAssetPath"
                             THEN "filename" ELSE hd.params[i].holds,
                             hd.params[i].val, "")]]

AddDocNode(doc, n, mxNode) ==
    LET g == getNodeGraph(doc, GetParentName(n))
    IN  IF g = 0
        THEN [doc EXCEPT !.graphs =
                 Append(@, [name |-> GetParentName(n),
                            nodes |-> Put(EmptyFn, GetName(n), mxNode)])]
        ELSE [doc EXCEPT !.graphs[g].nodes = Put(@, GetName(n), mxNode)]

\* d = [doc, seen, tex]
RECURSIVE DocGatherUpstream(_, _, _)
DocGatherUpstream(d, nw, cs) ==
    IF cs = <<>> THEN d
    ELSE LET up == Head(cs).upstreamNodeName
         IN  IF up \notin DOMAIN nw.nodes \/ up \in d.seen
             THEN DocGatherUpstream(d, nw, Tail(cs))
             ELSE LET d1 == [doc |-> AddDocNode(d.doc, up, MxNodeFromHd(nw, up)),
                             seen |-> d.seen \cup {up},
                             tex |-> IF IsTextureType(nw.nodes[up].type)
                                     THEN d.tex \cup {up} ELSE d.tex]
                      d2 == DocGatherUpstream(d1, nw,
                                              AllInputConnections(nw, up))
                  IN  DocGatherUpstream(d2, nw, Tail(cs))

CreateMtlxDocument(nw, terminalNodeName) ==
    DocGatherUpstream(
        [doc |-> [graphs |-> <<>>,
                  top |-> {"SR_" \o MaterialPrimName, MaterialPrimName}],
         seen |-> {}, tex |-> {}],
        nw, AllInputConnections(nw, terminalNodeName))

(***************************************************************************)
(* Texture nodes.                                                          *)
(***************************************************************************)
\* ArGetResolver().GetExtension of the resolved paths the model uses
GetExtension(path) ==
    CASE path = "/assets/a.png" -> "png"
      [] path = "/assets/a.tex" -> "tex"
      [] OTHER -> ""

\* _GetHdWrapString: [wrap, diags]
GetHdWrapString(hdTextureNodeName, mxInputValue) ==
    IF mxInputValue = "constant"
    THEN [wrap |-> "black", diags |-> <<Diag(562, PathString(hdTextureNodeName))>>]
    ELSE IF mxInputValue = "clamp"
    THEN [wrap |-> "clamp", diags |-> <<>>]
    ELSE IF mxInputValue = "mirror"
    THEN [wrap |-> "repeat", diags |-> <<Diag(570, PathString(hdTextureNodeName))>>]
    ELSE [wrap |-> "repeat", diags |-> <<>>]

\* A faulty _GetWrapModes that reads uaddressmode for both axes; C14 tells
\* it from the code's.
GetWrapModesOneAxis(nw, hdTextureNodeName) ==
    LET vUAddrMode == GetNodeParameterValue(nw, hdTextureNodeName,
                                            "uaddressmode")
        u == IF vUAddrMode # EmptyValue
             THEN GetHdWrapString(hdTextureNodeName, vUAddrMode.val)
             ELSE [wrap |-> "repeat", diags |-> <<>>]
    IN  [uWrap |-> u.wrap, vWrap |-> u.wrap, diags |-> u.diags \o u.diags]

\* _GetWrapModes: [uWrap, vWrap, diags]
GetWrapModes(nw, hdTextureNodeName) ==
    LET vUAddrMode == GetNodeParameterValue(nw, hdTextureNodeName, "uaddressmode")
        vVAddrMode == GetNodeParameterValue(nw, hdTextureNodeName, "vaddressmode")
        u == IF vUAddrMode # EmptyValue
             THEN GetHdWrapString(hdTextureNodeName, vUAddrMode.val)
             ELSE [wrap |-> "repeat", diags |-> <<>>]
        v == IF vVAddrMode # EmptyValue
             THEN GetHdWrapString(hdTextureNodeName, vVAddrMode.val)
             ELSE [wrap |-> "repeat", diags |-> <<>>]
    IN  [uWrap |-> u.wrap, vWrap |-> v.wrap, diags |-> u.diags \o v.diags]

\* Node::setInputValue / addInput / setConnectedNode on node nodeName of graph g
SetMxInput(doc, g, nodeName, input, v) ==
    [doc EXCEPT !.graphs[g].nodes[nodeName].inputs = Put(@, input, v)]

AddMxNode(doc, g, nodeName, category, nodedef) ==
    [doc EXCEPT !.graphs[g].nodes =
        Put(@, nodeName,
            [category |-> category, nodedef |-> nodedef, inputs |-> EmptyFn])]

\* A faulty default connection that adds the input and the geompropvalue
\* node and leaves them unconnected; C13 tells it from the code's.
AddTexcoordUnconnected(doc, g, mxTextureNode, textureNodeName, primvarName) ==
    LET stNodeName == PathString(textureNodeName) \o "__texcoord"
        d1 == AddMxNode(doc, g, stNodeName, "geompropvalue",
                        "ND_geompropvalue_vector2")
        d2 == SetMxInput(d1, g, stNodeName, "geomprop",
                         MxInput("string", primvarName, ""))
    IN  SetMxInput(d2, g, mxTextureNode, "texcoord",
                   MxInput("vector2", "", ""))

\* lines 681-710: the default connection to a geompropvalue node
AddTexcoord(doc, g, mxTextureNode, textureNodeName, primvarName) ==
    LET stNodeName == PathString(textureNodeName) \o "__texcoord"
        d1 == AddMxNode(doc, g, stNodeName, "geompropvalue",
                        "ND_geompropvalue_vector2")
        d2 == SetMxInput(d1, g, stNodeName, "geomprop",
                         MxInput("string", primvarName, ""))
    IN  SetMxInput(d2, g, mxTextureNode, "texcoord",
                   MxInput("vector2", "", stNodeName))

\* A faulty remap insertion that does not keep the coordinate source as the
\* remap node's input; C12 tells it from the code's.
AddRemapWithoutSource(doc, g, mxTextureNode, textureNodeName) ==
    LET remapNodeName == PathString(textureNodeName) \o "__remap"
        texcoordInput == doc.graphs[g].nodes[mxTextureNode].inputs["texcoord"]
        d1 == AddMxNode(doc, g, remapNodeName, "remap", "ND_remap_vector2")
        d3 == SetMxInput(d1, g, remapNodeName, "inhigh",
                         MxInput("float2", "1,0", ""))
        d4 == SetMxInput(d3, g, remapNodeName, "inlow",
                         MxInput("float2", "0,1", ""))
    IN  SetMxInput(d4, g, mxTextureNode, "texcoord",
                   [texcoordInput EXCEPT !.node = remapNodeName])

\* lines 711-739: the remap node that flips t
AddRemap(doc, g, mxTextureNode, textureNodeName) ==
    LET remapNodeName == PathString(textureNodeName) \o "__remap"
        texcoordInput == doc.graphs[g].nodes[mxTextureNode].inputs["texcoord"]
        d1 == AddMxNode(doc, g, remapNodeName, "remap", "ND_remap_vector2")
        d2 == SetMxInput(d1, g, remapNodeName, "in",
                         MxInput("vector2", "", texcoordInput.node))
        d3 == SetMxInput(d2, g, remapNodeName, "inhigh",
                         MxInput("float2", "1,0", ""))
        d4 == SetMxInput(d3, g, remapNodeName, "inlow",
                         MxInput("float2", "0,1", ""))
    IN  SetMxInput(d4, g, mxTextureNode, "texcoord",
                   [texcoordInput EXCEPT !.node = remapNodeName])

\* the metadata SdrNodeMetadata->Primvars of a texture node's entry
PrimvarsOf(sdrNode) == "st"

\* lines 609-741, one texture path: t = [doc, diags]
UpdateTextureNode(t, nw, reg, texturePath) ==
    LET nodeType == GetNodeType(nw, texturePath)
        vFile == GetNodeParameterValue(nw, texturePath, "file")
        path == vFile.val
        ext == GetExtension(path)
        loc == FindGraphAndNodeByName(t.doc, GetParentName(texturePath),
                                      GetName(texturePath))
        g == loc.graph
        mxTextureNode == GetName(texturePath)
        nonNative == ext # "" /\ ext # "tex"
        wrap == GetWrapModes(nw, texturePath)
        mxInputValue == "rtxplugin:RtxHioImage.so?filename=" \o path
                        \o "&wrapS=" \o wrap.uWrap \o "&wrapT=" \o wrap.vWrap
        d1 == SetMxInput(t.doc, g, mxTextureNode, "file",
                         MxInput("filename",
                                 IF nonNative THEN mxInputValue ELSE path, ""))
        d2 == IF "texcoord" \notin DOMAIN d1.graphs[g].nodes[mxTextureNode].inputs
              THEN AddTexcoord(d1, g, mxTextureNode, texturePath,
                               PrimvarsOf(GetShaderNodeByIdentifierAndType(
                                              reg, nodeType, mtlx)))
              ELSE d1
        d3 == IF ~nonNative THEN AddRemap(d2, g, mxTextureNode, texturePath)
              ELSE d2
    IN  IF nodeType = EmptyToken
        THEN [t EXCEPT !.diags = Append(@, Diag(613, PathString(texturePath)))]
        ELSE IF vFile = EmptyValue
        THEN [t EXCEPT !.diags = Append(@, Diag(621, PathString(texturePath)))]
        ELSE IF vFile.holds # "SdfAssetPath" THEN t
        ELSE IF ~loc.found THEN t
        ELSE [doc |-> d3,
              diags |-> t.diags \o (IF nonNative THEN wrap.diags ELSE <<>>)]

\* the set of texture paths is a std::set<SdfPath>: visited in path order
PathOrder == <<NodeA, NodeB, NodeC, NodeU>>

RECURSIVE UpdateTexturePaths(_, _, _, _)
UpdateTexturePaths(t, nw, reg, paths) ==
    IF paths = <<>> THEN t
    ELSE UpdateTexturePaths(UpdateTextureNode(t, nw, reg, Head(paths)),
                            nw, reg, Tail(paths))

UpdateTextureNodes(nw, reg, hdTextureNodePaths, doc) ==
    UpdateTexturePaths([doc |-> doc, diags |-> <<>>], nw, reg,
                       SelectSeq(PathOrder, LAMBDA n : n \in hdTextureNodePaths))

(***************************************************************************)
(* The input networks and environments of the model.                       *)
(*                                                                         *)
(* The terminal /Mat/Surface has up to MaxTermInputs input connections,    *)
(* each to output "out" of NodeA, NodeB or of NodeU, which the network     *)
(* does not hold.  NodeA (a multiply node), NodeB (an image node) and      *)
(* NodeC (a texture coordinate node) are connected by up to MaxUpEdges of  *)
(* the edges of UpEdges.  A material network is acyclic.                   *)
(***************************************************************************)
ND_texcoord_vector2 == "ND_texcoord_vector2"
TermInputNames == {"base", "emission", "normal"}
TermParamNames == {"base", "emission", "subsurface", "normal"}
TermTargets == {NodeA, NodeB, NodeU}
FaultyNodes == {NodeA, NodeB}
Outcomes == {"ok", "noOutput", "genEmpty", "compilerError", "fopenFail"}
UpEdges == { [from |-> NodeA, input |-> "in1", to |-> NodeB],
             [from |-> NodeB, input |-> "texcoord", to |-> NodeC],
             [from |-> NodeA, input |-> "in2", to |-> NodeU] }

\* every token, in the interface's default order of enumeration
AllTokens ==
    << "base", "emission", "normal", "subsurface", "emission_value",
       "subsurface_value", "input_normal", "in1", "in2", "file", "texcoord",
       "uaddressmode", "vaddressmode", "diffuseGain", "glowGain",
       "bumpNormal", "presence" >>

Injective(q) == \A i, j \in DOMAIN q : q[i] = q[j] => i = j

\* the terminal's connections in the order the interface enumerates them:
\* sequences of [input, to] with distinct inputs
TermConnSeqs ==
    UNION { { q \in [1..k -> [input : TermInputNames, to : TermTargets]] :
                Injective([i \in 1..k |-> q[i].input]) } :
            k \in 0..MaxTermInputs }

UpEdgeSets == {E \in SUBSET UpEdges : Cardinality(E) <= MaxUpEdges}

\* what can go wrong for a node: everything for NodeA, for NodeB what
\* differs once the node is shared
OutcomesOf(n) ==
    IF n = NodeA THEN Outcomes ELSE {"ok", "noOutput", "compilerError"}

OutcomeMaps ==
    {o \in [FaultyNodes -> Outcomes] :
        /\ \A n \in FaultyNodes : o[n] \in OutcomesOf(n)
        /\ Cardinality({n \in FaultyNodes : o[n] # "ok"}) <= MaxFaults}

AllOk == [n \in FaultyNodes |-> "ok"]

\* a parameter that is not authored
Unset == ""

Config(i, sf, tt, tp, tc, ue, oc, osl) ==
    [netInterface |-> i, surface |-> sf, termType |-> tt, termParams |-> tp,
     termConns |-> tc, upEdges |-> ue, outcome |-> oc, oslSupport |-> osl,
     twin |-> FALSE, texFile |-> "/assets/a.png", uWrap |-> "mirror",
     vWrap |-> Unset]

\* the graphs: every shape of the upstream graph under a standard surface
GraphConfigs ==
    { Config(TRUE, TRUE, ND_standard_surface_surfaceshader, {"base", "normal"},
             tc, ue, oc, TRUE) :
        tc \in TermConnSeqs, ue \in UpEdgeSets, oc \in OutcomeMaps }

\* the terminals: every terminal over a few graphs
TerminalConfigs ==
    { Config(i, sf, tt, tp, tc, {e \in UpEdges : e.to = NodeB}, AllOk, osl) :
        i \in BOOLEAN, sf \in BOOLEAN,
        tt \in {ND_standard_surface_surfaceshader,
                ND_UsdPreviewSurface_surfaceshader, ND_surface, PxrSurface},
        tp \in SUBSET TermParamNames,
        tc \in {q \in TermConnSeqs : Len(q) <= 1 /\ \A k \in DOMAIN q : q[k].to = NodeA},
        osl \in BOOLEAN }

\* two nodes with the same node segment in two containers, both connected
\* to the terminal
TwinConfigs ==
    { [Config(TRUE, TRUE, ND_standard_surface_surfaceshader, {}, tc, {},
              AllOk, TRUE) EXCEPT !.twin = TRUE] :
        tc \in {q \in [1..2 -> [input : TermInputNames, to : {NodeA, NodeA2}]] :
                   q[1].input # q[2].input /\ q[1].to # q[2].to} }

\* the texture node: every file format and every pair of wrap modes, with
\* and without a texture coordinate input
TextureFiles == {"/assets/a.png", "/assets/a.tex", "/assets/a"}
WrapValues == {Unset, "constant", "clamp", "mirror", "periodic"}

TextureConfigs ==
    { [Config(TRUE, TRUE, ND_standard_surface_surfaceshader, {},
              <<[input |-> "base", to |-> NodeB]>>, ue, AllOk, TRUE)
          EXCEPT !.texFile = f, !.uWrap = u, !.vWrap = v] :
        ue \in SUBSET {e \in UpEdges : e.from = NodeB},
        f \in TextureFiles, u \in WrapValues, v \in WrapValues }

Configs == GraphConfigs \cup TerminalConfigs \cup TwinConfigs \cup TextureConfigs

Value(holds, val) == [holds |-> holds, val |-> val]

ConnsFrom(cfg, n) ==
    LET E == {e \in cfg.upEdges : e.from = n}
    IN  [i \in {e.input : e \in E} |->
            <<Conn((CHOOSE e \in E : e.input = i).to, "out")>>]

MakeNet(cfg) ==
    [nodes |->
        [n \in {TerminalNode, NodeA, NodeB, NodeC}
                 \cup (IF cfg.twin THEN {NodeA2} ELSE {}) |->
            CASE n = TerminalNode ->
                   [type |-> cfg.termType,
                    params |-> [p \in cfg.termParams |->
                                   Value("float", "value of " \o p)],
                    conns |-> [i \in {cfg.termConns[k].input :
                                         k \in DOMAIN cfg.termConns} |->
                                  <<Conn((CHOOSE c \in Range(cfg.termConns) :
                                              c.input = i).to, "out")>>]]
              [] n \in {NodeA, NodeA2} ->
                   [type |-> ND_multiply_color3,
                    params |-> [p \in {"in2"} \ DOMAIN ConnsFrom(cfg, n) |->
                                   Value("float", "0.5")],
                    conns |-> ConnsFrom(cfg, n)]
              [] n = NodeB ->
                   [type |-> ND_image_color3,
                    params |->
                        [p \in {"file"}
                            \cup (IF cfg.uWrap # Unset THEN {"uaddressmode"}
                                  ELSE {})
                            \cup (IF cfg.vWrap # Unset THEN {"vaddressmode"}
                                  ELSE {}) |->
                            CASE p = "file" ->
                                   Value("SdfAssetPath", cfg.texFile)
                              [] p = "uaddressmode" ->
                                   Value("string", cfg.uWrap)
                              [] OTHER -> Value("string", cfg.vWrap)],
                    conns |-> ConnsFrom(cfg, n)]
              [] OTHER ->
                   [type |-> ND_texcoord_vector2,
                    params |-> [p \in {"index"} |-> Value("int", "0")],
                    conns |-> EmptyFn]],
     terminals |-> IF cfg.surface
                   THEN Put(EmptyFn, surface, Conn(TerminalNode, EmptyToken))
                   ELSE EmptyFn]

MakeEnv(cfg) ==
    [netInterface |-> cfg.netInterface,
     oslSupport |-> cfg.oslSupport,
     outcome |-> cfg.outcome,
     unwritable |-> {"MX." \o GetName(n) \o "Shader" :
                        n \in {m \in FaultyNodes : cfg.outcome[m] = "fopenFail"}},
     tokenOrder |->
        [i \in DOMAIN cfg.termConns |-> cfg.termConns[i].input]
        \o SelectSeq(AllTokens, LAMBDA x :
               \A k \in DOMAIN cfg.termConns : cfg.termConns[k].input # x)]

\* nothing was located: the pipeline's calls are part of its steps
NotLocated == [graph |-> 0, found |-> FALSE]

Init ==
    \E cfg \in Configs :
        /\ pc = "start"
        /\ net = MakeNet(cfg)
        /\ net0 = MakeNet(cfg)
        /\ out1 = MakeNet(cfg)
        /\ run = 1
        /\ sdr = StdRegistry
        /\ nTmpFile = 0
        /\ diags = <<>>
        /\ mxDoc = NoDoc
        /\ texPaths = {}
        /\ genLog = <<>>
        /\ compLog = <<>>
        /\ genNames = <<>>
        /\ located = NotLocated
        /\ tmpFiles = EmptyFn
        /\ env = MakeEnv(cfg)

(***************************************************************************)
(* MatfiltMaterialX, in four steps.                                        *)
(***************************************************************************)
\* the local terminalNodeName of MatfiltMaterialX
TerminalNodeName == GetTerminalConnection(net, surface)[2].upstreamNodeName

\* Faulty entry checks that leave out the registry lookup of lines 764-770;
\* C6 tells them from the code's.
EntryChecksNoRegistry(netInterface, nw, reg) ==
    /\ netInterface
    /\ GetTerminalConnection(nw, surface)[1]

\* lines 749-770: the three checks MatfiltMaterialX returns on.  TRUE when
\* it goes on.
EntryChecks(netInterface, nw, reg) ==
    LET res == GetTerminalConnection(nw, surface)
        terminalNodeType == GetNodeType(nw, res[2].upstreamNodeName)
        mtlxSdrNode == GetShaderNodeByIdentifierAndType(reg, terminalNodeType,
                                                        mtlx)
    IN  /\ netInterface
        /\ res[1]
        /\ ~mtlxSdrNode.null

\* lines 783-789
WithDocument(d) == mxDoc' = d.doc /\ texPaths' = d.tex

\* lines 749-789: the checks, and the document when the terminal has inputs
Entry ==
    /\ pc = "start"
    /\ IF ~EntryChecks(env.netInterface, net, sdr)
       THEN pc' = "done" /\ UNCHANGED <<mxDoc, texPaths>>
       ELSE IF GetNodeInputConnectionNames(net, TerminalNodeName) # <<>>
       THEN /\ pc' = "textures"
            /\ WithDocument(CreateMtlxDocument(net, TerminalNodeName))
       ELSE pc' = "transform" /\ UNCHANGED <<mxDoc, texPaths>>
    /\ UNCHANGED <<net, net0, out1, run, sdr, nTmpFile, diags, genLog,
                   compLog, genNames, located, tmpFiles, env>>

\* lines 791-798: the texture nodes, then the material and shader nodes
\* leave the document
AfterUpdateTextureNodes(t) ==
    /\ mxDoc' = [t.doc EXCEPT !.top =
                    @ \ {"SR_" \o MaterialPrimName, MaterialPrimName}]
    /\ diags' = diags \o t.diags

TextureStep ==
    /\ pc = "textures"
    /\ AfterUpdateTextureNodes(UpdateTextureNodes(net, sdr, texPaths, mxDoc))
    /\ pc' = "rewrite"
    /\ UNCHANGED <<net, net0, out1, run, sdr, nTmpFile, texPaths, genLog,
                   compLog, genNames, located, tmpFiles, env>>

\* line 802: what _UpdateNetwork leaves behind
AfterUpdateNetwork(s) ==
    /\ net' = s.net
    /\ sdr' = s.sdr
    /\ diags' = s.diags
    /\ nTmpFile' = s.nTmpFile
    /\ tmpFiles' = s.tmpFiles
    /\ genLog' = s.genLog
    /\ compLog' = s.compLog
    /\ genNames' = s.genNames
    /\ pc' = "transform"

RewriteStep ==
    /\ pc = "rewrite"
    /\ AfterUpdateNetwork(
           UpdateNetwork(
               [UpdateNetworkState(net, sdr, mxDoc, nTmpFile, tmpFiles)
                   EXCEPT !.diags = diags],
               TerminalNodeName))
    /\ UNCHANGED <<net0, out1, run, mxDoc, texPaths, located, env>>

\* line 806
AfterTransformTerminalNode(r) == net' = r.net /\ diags' = diags \o r.diags

TransformStep ==
    /\ pc = "transform"
    /\ AfterTransformTerminalNode(
           TransformTerminalNode(net, sdr, TerminalNodeName))
    /\ pc' = "done"
    /\ UNCHANGED <<net0, out1, run, sdr, nTmpFile, mxDoc, texPaths, genLog,
                   compLog, genNames, located, tmpFiles, env>>

\* the caller invokes the entry point again, on a fresh copy of the input
Rerun ==
    /\ pc = "done"
    /\ run = 1
    /\ run' = run + 1
    /\ out1' = net
    /\ net' = net0
    /\ pc' = "start"
    /\ diags' = <<>>
    /\ mxDoc' = NoDoc
    /\ texPaths' = {}
    /\ genLog' = <<>>
    /\ compLog' = <<>>
    /\ genNames' = <<>>
    /\ UNCHANGED <<net0, sdr, nTmpFile, located, tmpFiles, env>>

Next == Entry \/ TextureStep \/ RewriteStep \/ TransformStep \/ Rerun

Spec == Init /\ [][Next]_vars

(***************************************************************************)
(* What is checked of _UpdateNetwork.  The state with pc = "transform" is  *)
(* the one _UpdateNetwork leaves (or, for a terminal without inputs, the   *)
(* untouched network); net0 is the network the entry point was given.      *)
(***************************************************************************)
\* every connection of node n of nw, as a set
ConnectionsOf(nw, n) ==
    IF n \in DOMAIN nw.nodes
    THEN UNION {Range(nw.nodes[n].conns[i]) : i \in DOMAIN nw.nodes[n].conns}
    ELSE {}

\* the nodes named by the connections of node n
DirectlyUpstream(nw, n) == {c.upstreamNodeName : c \in ConnectionsOf(nw, n)}

\* S and everything upstream of it
UpstreamClosure(nw, S) ==
    LET F[i \in 0..Cardinality(DOMAIN nw.nodes)] ==
            IF i = 0 THEN S
            ELSE F[i-1] \cup UNION {DirectlyUpstream(nw, n) : n \in F[i-1]}
    IN  F[Cardinality(DOMAIN nw.nodes)]

\* the terminal inputs of net0 with a connection to node n
TerminalInputsTo(n) ==
    {i \in DOMAIN net0.nodes[TerminalNode].conns :
        \E c \in Range(net0.nodes[TerminalNode].conns[i]) :
            c.upstreamNodeName = n}

\* what the generator and the compiler do with node n
OutcomeFor(n) == IF n \in DOMAIN env.outcome THEN env.outcome[n] ELSE "ok"

AfterRewrite == pc = "transform" /\ DOMAIN net0.nodes[TerminalNode].conns # {}

\* C1: after the rewrite every input connection reachable from the terminal
\* node refers to a node that exists in the network and whose registry
\* entry declares the referenced output (a connection that was dropped is
\* not in the network any more).
C1_ReachableConnectionsResolve ==
    AfterRewrite =>
        \A n \in UpstreamClosure(net, {TerminalNode}) :
            \A c \in ConnectionsOf(net, n) :
                /\ c.upstreamNodeName \in DOMAIN net.nodes
                /\ c.upstreamOutputName \in
                       GetShaderNodeByIdentifier(
                           sdr, net.nodes[c.upstreamNodeName].type).outputs

\* C2: after the rewrite every existing node directly connected to the
\* terminal is still in the network, and every node transitively upstream of
\* a directly connected node that is not itself directly connected is gone.
C2_DirectKeptTransitiveDeleted ==
    AfterRewrite =>
        LET direct == DirectlyUpstream(net0, TerminalNode) \cap DOMAIN net0.nodes
            above == UpstreamClosure(net0, direct) \cap DOMAIN net0.nodes
        IN  /\ \A n \in direct : n \in DOMAIN net.nodes
            /\ \A n \in above \ direct : n \notin DOMAIN net.nodes

\* C3: when two or more terminal inputs are connected to the same upstream
\* node and output, and nothing fails, the node is generated and compiled
\* exactly once and all of those inputs (under their old or their renamed
\* name) refer to the one generated node afterwards.
C3_SharedNodeGeneratedOnce ==
    (AfterRewrite /\ env.oslSupport /\ \A m \in FaultyNodes : env.outcome[m] = "ok") =>
        \A n \in DOMAIN net0.nodes :
            Cardinality(TerminalInputsTo(n)) >= 2 =>
                /\ Count(genLog, LAMBDA x : x = n) = 1
                /\ Count(compLog, LAMBDA x : x = n) = 1
                /\ n \in DOMAIN net.nodes
                /\ net.nodes[n].type \notin {e.identifier : e \in StdRegistry}
                /\ \A i \in TerminalInputsTo(n) :
                       \E j \in DOMAIN net.nodes[TerminalNode].conns :
                           /\ j \in {i, i \o "_value", "input_" \o i}
                           /\ net.nodes[TerminalNode].conns[j] = <<Conn(n, "out")>>

\* C4: when the compiler reports an error for the source of a node, the
\* node keeps its type, the terminal inputs connected to it are untouched,
\* the registry gets no entry for the node, and a diagnostic is recorded.
C4_CompilerErrorLeavesNodeAlone ==
    AfterRewrite =>
        \A n \in Range(compLog) :
            (env.oslSupport /\ OutcomeFor(n) = "compilerError") =>
                /\ net.nodes[n].type = net0.nodes[n].type
                /\ \A i \in TerminalInputsTo(n) :
                       /\ i \in DOMAIN net.nodes[TerminalNode].conns
                       /\ net.nodes[TerminalNode].conns[i] =
                              net0.nodes[TerminalNode].conns[i]
                /\ Cardinality(sdr \ StdRegistry) =
                       Cardinality({f \in DOMAIN tmpFiles : tmpFiles[f].valid})
                /\ Count(diags, LAMBDA d : d.line \in {310, 320}) = 1

\* C5: for every terminal input connection whose upstream node is not in
\* the network, the rewrite attempts no generation and no compilation for
\* it, leaves the terminal input as it was, records one diagnostic naming
\* the node for each such connection, and goes on: every directly connected
\* node that was not reached from another one is still generated.
C5_UnknownUpstreamSkipped ==
    AfterRewrite =>
        LET direct == DirectlyUpstream(net0, TerminalNode)
            known == direct \cap DOMAIN net0.nodes
            reached == UNION {UpstreamClosure(net0, DirectlyUpstream(net0, n)) :
                                 n \in known}
        IN  /\ \A u \in direct \ known :
                  /\ u \notin Range(genLog)
                  /\ u \notin Range(compLog)
                  /\ \A i \in TerminalInputsTo(u) :
                         /\ i \in DOMAIN net.nodes[TerminalNode].conns
                         /\ net.nodes[TerminalNode].conns[i] =
                                net0.nodes[TerminalNode].conns[i]
                  /\ Count(diags, LAMBDA d : d = Diag(378, PathString(u))) =
                         Cardinality(TerminalInputsTo(u))
            /\ \A n \in known \ reached : n \in Range(genLog)

\* C5 happens: an input to an unknown node is followed by one to a node of
\* the network
C5_Witness ==
    /\ AfterRewrite
    /\ \E i, j \in DOMAIN env.tokenOrder :
           /\ i < j
           /\ env.tokenOrder[i] \in TerminalInputsTo(NodeU)
           /\ env.tokenOrder[j] \in TerminalInputsTo(NodeA)
    /\ NodeA \in Range(genLog)
    /\ \E k \in DOMAIN diags : diags[k] = Diag(378, PathString(NodeU))

(***************************************************************************)
(* What is checked of MatfiltMaterialX and _TransformTerminalNode.         *)
(***************************************************************************)
\* the input network has a surface terminal whose node has an mtlx entry
HasMtlxTerminal ==
    /\ surface \in DOMAIN net0.terminals
    /\ \E e \in StdRegistry :
           /\ e.identifier =
                  net0.nodes[net0.terminals[surface].upstreamNodeName].type
           /\ e.sourceType = mtlx

\* C6: with a null handle, without a surface terminal or with a terminal
\* whose type is not an mtlx type of the registry, the entry point leaves
\* the network as it was, adds nothing to the registry, writes no file and
\* emits no diagnostic.
C6_NoOpWithoutMtlxTerminal ==
    (~env.netInterface \/ ~HasMtlxTerminal) =>
        /\ net = net0
        /\ sdr = StdRegistry
        /\ tmpFiles = EmptyFn
        /\ diags = <<>>

\* C6 happens: the entry point returned on a network with a handle, a
\* surface terminal and inputs, whose terminal is not of an mtlx type
C6_Witness ==
    /\ pc = "done"
    /\ env.netInterface
    /\ surface \in DOMAIN net0.terminals
    /\ net0.nodes[TerminalNode].type = PxrSurface
    /\ DOMAIN net0.nodes[TerminalNode].conns # {}

SupportedSurfaces ==
    {ND_standard_surface_surfaceshader, ND_UsdPreviewSurface_surfaceshader}

\* C7: when the terminal's type is neither supported surface type, the
\* transform emits a diagnostic and leaves the whole network as the rewrite
\* left it: terminal type and parameters, no closure node, the surface
\* terminal connection.
C7_UnsupportedTerminalUntouched ==
    [][ (pc = "transform" /\ net.nodes[TerminalNode].type \notin SupportedSurfaces)
        => /\ net' = net
           /\ Len(diags') > Len(diags)
           /\ \A k \in DOMAIN diags : diags'[k] = diags[k] ]_vars

\* C7 happens: the transform ran on a terminal of another mtlx type, after a
\* rewrite that changed the network
C7_Witness ==
    /\ pc = "done"
    /\ HasMtlxTerminal
    /\ net.nodes[TerminalNode].type = ND_surface
    /\ net # net0
    /\ net.terminals = net0.terminals
    /\ \E k \in DOMAIN diags : diags[k].line = 500

\* the fixed table of renamed parameters
RenamedParameter(p) ==
    CASE p = "emission"   -> "emission_value"
      [] p = "subsurface" -> "subsurface_value"
      [] p = "normal"     -> "input_normal"
      [] OTHER            -> p

\* C8: for a standard surface terminal the transform sets the adapter type
\* and every authored parameter emission, subsurface or normal is afterwards
\* found under emission_value, subsurface_value or input_normal with its
\* value and not under its old name; every other parameter keeps name and
\* value.
C8_StandardSurfaceParametersRenamed ==
    [][ (pc = "transform" /\
         net.nodes[TerminalNode].type = ND_standard_surface_surfaceshader)
        => LET old == net.nodes[TerminalNode].params
               new == net'.nodes[TerminalNode].params
           IN  /\ net'.nodes[TerminalNode].type = SS_Adapter
               /\ DOMAIN new = {RenamedParameter(p) : p \in DOMAIN old}
               /\ \A p \in DOMAIN old : new[RenamedParameter(p)] = old[p] ]_vars

\* C8 happens: a standard surface with parameters normal and base was
\* transformed; the adapter has no output input_normalOut or normalOut
C8_Witness ==
    /\ pc = "done"
    /\ net0.nodes[TerminalNode].type = ND_standard_surface_surfaceshader
    /\ {"normal", "base"} \subseteq DOMAIN net0.nodes[TerminalNode].params
    /\ net.nodes[TerminalNode].type = SS_Adapter
    /\ "input_normal" \in DOMAIN net.nodes[TerminalNode].params
    /\ "normal" \notin DOMAIN net.nodes[TerminalNode].params
    /\ \A e \in sdr : e.identifier = SS_Adapter =>
           e.outputs \cap {"normalOut", "input_normalOut"} = {}

\* the adapter type of a supported surface type
AdapterOf(t) ==
    IF t = ND_standard_surface_surfaceshader THEN SS_Adapter ELSE USD_Adapter

\* C9: after a successful transform there is a closure node
\* <terminal>_PxrSurface of type PxrSurface; its input connections are
\* X -> (terminal, XOut) for exactly the declared inputs X of PxrSurface
\* for which the adapter declares XOut; and the surface terminal connection
\* refers to the closure node, with an empty output name.
C9_ClosureNodeWired ==
    [][ (pc = "transform" /\ net.nodes[TerminalNode].type \in SupportedSurfaces)
        => LET closure == <<"Mat", "Surface_PxrSurface">>
               adapter == CHOOSE e \in sdr :
                   e.identifier = AdapterOf(net.nodes[TerminalNode].type)
               pxr == CHOOSE e \in sdr : e.identifier = PxrSurface
               matched == {x \in pxr.inputs : (x \o "Out") \in adapter.outputs}
           IN  /\ closure \in DOMAIN net'.nodes
               /\ net'.nodes[closure].type = PxrSurface
               /\ DOMAIN net'.nodes[closure].conns = matched
               /\ \A x \in matched :
                      net'.nodes[closure].conns[x] =
                          <<Conn(TerminalNode, x \o "Out")>>
               /\ net'.terminals[surface] = Conn(closure, EmptyToken) ]_vars

\* C9 happens: a closure node with a connected and an unconnected declared
\* input
C9_Witness ==
    /\ pc = "done"
    /\ <<"Mat", "Surface_PxrSurface">> \in DOMAIN net.nodes
    /\ "diffuseGain" \in DOMAIN net.nodes[<<"Mat", "Surface_PxrSurface">>].conns
    /\ "presence" \notin DOMAIN net.nodes[<<"Mat", "Surface_PxrSurface">>].conns
    /\ net.terminals[surface].upstreamNodeName = <<"Mat", "Surface_PxrSurface">>

\* C10: the pipeline run on two copies of the same input network gives the
\* same output network: out1 is the output of the first run, net that of
\* the second.
C10_TwoRunsSameNetwork ==
    (pc = "done" /\ run = 2) => net = out1

(***************************************************************************)
(* What is checked of the generated shader names.                          *)
(***************************************************************************)
\* C11: within one rewrite two distinct upstream nodes never get the same
\* generated shader name, also when they have the same node segment in
\* different containers (genNames[i] is the name generated for genLog[i]).
C11_ShaderNamesDistinct ==
    AfterRewrite =>
        \A i, j \in DOMAIN genLog :
            genLog[i] # genLog[j] => genNames[i] # genNames[j]

(***************************************************************************)
(* What is checked of _UpdateTextureNodes: the step from pc = "textures"   *)
(* takes the document mxDoc to mxDoc'.                                     *)
(***************************************************************************)
\* the texture nodes the adaptor works on: in the network, with an asset
\* valued file parameter, and in the document
ProcessedTextures ==
    {n \in texPaths \cap DOMAIN net.nodes :
        /\ "file" \in DOMAIN net.nodes[n].params
        /\ net.nodes[n].params["file"].holds = "SdfAssetPath"
        /\ \E i \in DOMAIN mxDoc.graphs :
               mxDoc.graphs[i].name = n[1] /\ n[2] \in DOMAIN mxDoc.graphs[i].nodes}

\* the nodes of the container of texture node n, in a document
ContainerNodes(doc, n) ==
    doc.graphs[CHOOSE i \in DOMAIN doc.graphs : doc.graphs[i].name = n[1]].nodes

FileOf(n) == net.nodes[n].params["file"].val
RemapNodeOf(n) == "/Mat/" \o n[1] \o "/" \o n[2] \o "__remap"
TexcoordNodeOf(n) == "/Mat/" \o n[1] \o "/" \o n[2] \o "__texcoord"

\* C12: a processed texture node with a file of the native format (.tex)
\* afterwards has a remap node with inhigh (1,0) and inlow (0,1) between
\* its coordinate source and itself: texcoord is connected to the remap
\* node and the remap node's input in to what texcoord was connected to.
\* A texture node with another, non-empty extension gets no remap node.
C12_RemapForNativeFormatOnly ==
    [][ pc = "textures" =>
        \A n \in ProcessedTextures :
            LET before == ContainerNodes(mxDoc, n)
                after == ContainerNodes(mxDoc', n)
                source == IF "texcoord" \in DOMAIN before[n[2]].inputs
                          THEN before[n[2]].inputs["texcoord"].node
                          ELSE TexcoordNodeOf(n)
            IN  /\ FileOf(n) = "/assets/a.tex" =>
                       /\ RemapNodeOf(n) \in DOMAIN after
                       /\ after[RemapNodeOf(n)].category = "remap"
                       /\ {"in", "inhigh", "inlow"} \subseteq
                              DOMAIN after[RemapNodeOf(n)].inputs
                       /\ after[RemapNodeOf(n)].inputs["inhigh"].value = "1,0"
                       /\ after[RemapNodeOf(n)].inputs["inlow"].value = "0,1"
                       /\ after[RemapNodeOf(n)].inputs["in"].node = source
                       /\ source \in DOMAIN after
                       /\ after[n[2]].inputs["texcoord"].node = RemapNodeOf(n)
                /\ FileOf(n) = "/assets/a.png" =>
                       \A m \in DOMAIN after : after[m].category # "remap" ]_vars

\* C12 happens: a .tex texture whose texcoord input was connected to NodeC
\* has its remap node
C12_Witness ==
    /\ pc = "rewrite"
    /\ net0.nodes[NodeB].params["file"].val = "/assets/a.tex"
    /\ "texcoord" \in DOMAIN net0.nodes[NodeB].conns
    /\ \E i \in DOMAIN mxDoc.graphs :
           /\ "/Mat/NG/B__remap" \in DOMAIN mxDoc.graphs[i].nodes
           /\ mxDoc.graphs[i].nodes["/Mat/NG/B__remap"].inputs["in"].node = "C"

\* the node the texture node named t takes its coordinates from: the node
\* its texcoord input is connected to, seen through a remap node
CoordinateSource(nodes, t) ==
    LET c == nodes[t].inputs["texcoord"].node
    IN  IF c \in DOMAIN nodes /\ nodes[c].category = "remap"
        THEN nodes[c].inputs["in"].node
        ELSE c

Geompropvalues(nodes) ==
    {m \in DOMAIN nodes : nodes[m].category = "geompropvalue"}

\* C13: a processed texture node without a texcoord input gains one
\* texcoord input of type vector2 and exactly one geompropvalue node, which
\* is its coordinate source; one that has a texcoord input gains no
\* geompropvalue node and keeps its coordinate source.
C13_TexcoordSynthesizedOnce ==
    [][ pc = "textures" =>
        \A n \in ProcessedTextures :
            LET before == ContainerNodes(mxDoc, n)
                after == ContainerNodes(mxDoc', n)
                added == Geompropvalues(after) \ Geompropvalues(before)
            IN  /\ "texcoord" \in DOMAIN after[n[2]].inputs
                /\ IF "texcoord" \notin DOMAIN before[n[2]].inputs
                   THEN /\ after[n[2]].inputs["texcoord"].type = "vector2"
                        /\ Cardinality(added) = 1
                        /\ CoordinateSource(after, n[2]) \in added
                        /\ "geomprop" \in
                               DOMAIN after[CoordinateSource(after, n[2])].inputs
                   ELSE /\ added = {}
                        /\ CoordinateSource(after, n[2]) =
                               before[n[2]].inputs["texcoord"].node ]_vars

\* C13 happens: the image node had no texcoord connection and has its
\* geompropvalue node; in another network it had one and keeps it
C13_Witness ==
    /\ pc = "rewrite"
    /\ "texcoord" \notin DOMAIN net0.nodes[NodeB].conns
    /\ \E i \in DOMAIN mxDoc.graphs :
           /\ "B" \in DOMAIN mxDoc.graphs[i].nodes
           /\ "/Mat/NG/B__texcoord" \in DOMAIN mxDoc.graphs[i].nodes
           /\ mxDoc.graphs[i].nodes["B"].inputs["texcoord"].node =
                  "/Mat/NG/B__texcoord"

\* the wrap-mode table: the mode for an authored value, Unset for none
WrapModeFor(x) ==
    CASE x = "constant" -> "black"
      [] x = "clamp"    -> "clamp"
      [] OTHER          -> "repeat"

\* the diagnostics of one axis of texture node n
WrapDiagnosticsFor(n, x) ==
    CASE x = "constant" -> <<[line |-> 562, subject |-> "/Mat/" \o n[1] \o "/" \o n[2]]>>
      [] x = "mirror"   -> <<[line |-> 570, subject |-> "/Mat/" \o n[1] \o "/" \o n[2]]>>
      [] OTHER          -> <<>>

AuthoredOrUnset(n, p) ==
    IF p \in DOMAIN net.nodes[n].params THEN net.nodes[n].params[p].val
    ELSE Unset

\* C14: constant maps to black with one diagnostic, clamp to clamp with
\* none, mirror to repeat with one diagnostic, any other value to repeat
\* with none, an unset mode to repeat; the two axes are mapped
\* independently.  The modes are read off the file value written for a
\* texture of a non-native format.
C14_WrapModeTable ==
    [][ pc = "textures" =>
        \A n \in ProcessedTextures :
            FileOf(n) = "/assets/a.png" =>
                LET u == AuthoredOrUnset(n, "uaddressmode")
                    v == AuthoredOrUnset(n, "vaddressmode")
                IN  /\ ContainerNodes(mxDoc', n)[n[2]].inputs["file"].value =
                           "rtxplugin:RtxHioImage.so?filename=/assets/a.png&wrapS="
                               \o WrapModeFor(u) \o "&wrapT=" \o WrapModeFor(v)
                    /\ diags' = diags \o WrapDiagnosticsFor(n, u)
                                      \o WrapDiagnosticsFor(n, v) ]_vars

\* C14 happens: constant on one axis and mirror on the other gave black and
\* repeat and the two diagnostics
C14_Witness ==
    /\ pc = "rewrite"
    /\ net0.nodes[NodeB].params["file"].val = "/assets/a.png"
    /\ {"uaddressmode", "vaddressmode"} \subseteq DOMAIN net0.nodes[NodeB].params
    /\ net0.nodes[NodeB].params["uaddressmode"].val = "constant"
    /\ net0.nodes[NodeB].params["vaddressmode"].val = "mirror"
    /\ diags = <<[line |-> 562, subject |-> "/Mat/NG/B"],
                 [line |-> 570, subject |-> "/Mat/NG/B"]>>
    /\ \E i \in DOMAIN mxDoc.graphs :
           /\ "B" \in DOMAIN mxDoc.graphs[i].nodes
           /\ mxDoc.graphs[i].nodes["B"].inputs["file"].value =
                  "rtxplugin:RtxHioImage.so?filename=/assets/a.png&wrapS=black&wrapT=repeat"

(***************************************************************************)
(* _FindGraphAndNodeByName on its own: every document of up to MaxGraphs   *)
(* containers, asked for node "A" under every hint.  mxDoc is the          *)
(* document, env the two names, located the result.                        *)
(***************************************************************************)
MaxGraphs == 3
LocateGraphNames == {"NG", "NG2", "NG3", "NG4"}
LocateNodeNames == {"A", "B"}
LocateHints == LocateGraphNames \cup {"NGX"}

PlainMxNode == [category |-> "node", nodedef |-> ND_multiply_color3,
                inputs |-> EmptyFn]

\* the containers of a document have distinct names
LocateDocs ==
    UNION { { [graphs |-> [i \in 1..k |->
                             [name |-> names[i],
                              nodes |-> [m \in held[i] |-> PlainMxNode]]],
               top |-> {}] :
                names \in {q \in [1..k -> LocateGraphNames] : Injective(q)},
                held \in [1..k -> SUBSET LocateNodeNames] } :
            k \in 0..MaxGraphs }

NoNetwork == [nodes |-> EmptyFn, terminals |-> EmptyFn]

InitLocate ==
    /\ pc = "locate"
    /\ mxDoc \in LocateDocs
    /\ env \in [mxNodeGraphName : LocateHints, mxNodeName : {"A"}]
    /\ located = NotLocated
    /\ net = NoNetwork
    /\ net0 = NoNetwork
    /\ out1 = NoNetwork
    /\ run = 1
    /\ sdr = StdRegistry
    /\ nTmpFile = 0
    /\ diags = <<>>
    /\ texPaths = {}
    /\ genLog = <<>>
    /\ compLog = <<>>
    /\ genNames = <<>>
    /\ tmpFiles = EmptyFn

\* lines 164-168: the call
Locate ==
    /\ pc = "locate"
    /\ located' = FindGraphAndNodeByName(mxDoc, env.mxNodeGraphName,
                                         env.mxNodeName)
    /\ pc' = "located"
    /\ UNCHANGED <<net, net0, out1, run, sdr, nTmpFile, diags, mxDoc,
                   texPaths, genLog, compLog, genNames, tmpFiles, env>>

NextLocate == Locate

SpecLocate == InitLocate /\ [][NextLocate]_vars

\* the containers of mxDoc that hold the node asked for, and the hinted one
Holders == {i \in DOMAIN mxDoc.graphs : env.mxNodeName \in DOMAIN mxDoc.graphs[i].nodes}
Hinted == {i \in DOMAIN mxDoc.graphs : mxDoc.graphs[i].name = env.mxNodeGraphName}

\* C15: the node is found iff some container holds it; the container
\* returned holds the node found; it is the hinted container when that
\* holds the node, else the last container when that holds it, else the
\* first container in document order that holds it.  When nothing is found
\* the container returned is the hinted one if it exists, else none.
C15_LocatePrefersHintThenLastThenFirst ==
    pc = "located" =>
        /\ located.found <=> Holders # {}
        /\ located.found => located.graph \in Holders
        /\ Hinted \cap Holders # {} => located.graph \in Hinted
        /\ (Hinted \cap Holders = {} /\ Len(mxDoc.graphs) \in Holders) =>
               located.graph = Len(mxDoc.graphs)
        /\ (Hinted \cap Holders = {} /\ Holders # {}
                /\ Len(mxDoc.graphs) \notin Holders) =>
               \A i \in Holders : located.graph <= i
        /\ ~located.found =>
               IF Hinted # {} THEN located.graph \in Hinted
               ELSE located.graph = 0

\* C15 happens: the hinted container exists without the node, and the first
\* and the last container hold it: the last one is returned
C15_Witness ==
    /\ pc = "located"
    /\ Len(mxDoc.graphs) = 3
    /\ Hinted = {2}
    /\ Holders = {1, 3}
    /\ located = [graph |-> 3, found |-> TRUE]

(***************************************************************************)
(* What is checked of the renaming of reserved words.                      *)
(***************************************************************************)
ReservedNames == {"emission", "subsurface", "normal"}

\* every node directly connected to the terminal was generated, compiled
\* and replaced by its compiled shader, which declares the output asked for
AllUpstreamRewritten ==
    /\ AfterRewrite
    /\ \A n \in DirectlyUpstream(net0, TerminalNode) :
           /\ n \in DOMAIN net0.nodes
           /\ n \in Range(genLog)
           /\ n \in Range(compLog)
           /\ n \in DOMAIN net.nodes
           /\ \E e \in sdr \ StdRegistry :
                  e.identifier = net.nodes[n].type /\ "out" \in e.outputs

\* C16: after such a rewrite every terminal input connection that was
\* named emission, subsurface or normal is held under emission_value,
\* subsurface_value or input_normal, with the same upstream node and
\* output, and no connection is left under the old name; also for an input
\* whose upstream node was visited through another terminal input before.
C16_ReservedInputsRenamed ==
    AllUpstreamRewritten =>
        \A x \in ReservedNames \cap DOMAIN net0.nodes[TerminalNode].conns :
            /\ RenamedParameter(x) \in DOMAIN net.nodes[TerminalNode].conns
            /\ net.nodes[TerminalNode].conns[RenamedParameter(x)] =
                   net0.nodes[TerminalNode].conns[x]
            /\ x \notin DOMAIN net.nodes[TerminalNode].conns

\* generation or compilation of n gave an empty result
EmptyResultFor(n) ==
    \/ n \notin Range(compLog)
    \/ ~env.oslSupport
    \/ OutcomeFor(n) = "fopenFail"

\* generation and compilation of n both succeeded
BothSucceededFor(n) ==
    /\ n \in Range(compLog)
    /\ env.oslSupport
    /\ OutcomeFor(n) \in {"ok", "noOutput"}

\* C17, first part: when generation or compilation returns an empty result
\* for node n, its type, parameters and input connections and the terminal's
\* input connections to it are as before the rewrite.
C17_FailedNodeUntouched ==
    AfterRewrite =>
        \A n \in Range(genLog) :
            EmptyResultFor(n) =>
                /\ n \in DOMAIN net.nodes
                /\ net.nodes[n] = net0.nodes[n]
                /\ \A i \in TerminalInputsTo(n) :
                       /\ i \in DOMAIN net.nodes[TerminalNode].conns
                       /\ net.nodes[TerminalNode].conns[i] =
                              net0.nodes[TerminalNode].conns[i]

\* C17: a node for which generation or compilation returned an empty result
\* is left untouched, and the parameters and input connections of a node
\* are stripped only when both its generation and its compilation
\* succeeded.
C17_StrippedOnlyOnSuccess ==
    /\ C17_FailedNodeUntouched
    /\ AfterRewrite =>
           \A n \in Range(genLog) :
               (\/ net.nodes[n].params # net0.nodes[n].params
                \/ net.nodes[n].conns # net0.nodes[n].conns)
                   => BothSucceededFor(n)

\* the pass ended on a supported terminal whose input x was connected to a
\* node that the rewrite replaced by its compiled shader, and whose
\* parameter x was authored
BothAuthored(x) ==
    /\ pc = "done"
    /\ env.netInterface
    /\ HasMtlxTerminal
    /\ net0.nodes[TerminalNode].type \in SupportedSurfaces
    /\ x \in DOMAIN net0.nodes[TerminalNode].params
    /\ x \in DOMAIN net0.nodes[TerminalNode].conns
    /\ \A c \in Range(net0.nodes[TerminalNode].conns[x]) :
           /\ c.upstreamNodeName \in DOMAIN net.nodes
           /\ \E e \in sdr \ StdRegistry :
                  /\ e.identifier = net.nodes[c.upstreamNodeName].type
                  /\ c.upstreamOutputName \in e.outputs

ConnectionRenamed(x) ==
    /\ x \notin DOMAIN net.nodes[TerminalNode].conns
    /\ RenamedParameter(x) \in DOMAIN net.nodes[TerminalNode].conns

ParameterRenamed(x) ==
    /\ x \notin DOMAIN net.nodes[TerminalNode].params
    /\ RenamedParameter(x) \in DOMAIN net.nodes[TerminalNode].params

\* C18: in one pass, for every supported terminal type and every name among
\* emission, subsurface and normal, the rewrite renames the terminal's input
\* connection of that name iff the transform renames the terminal's
\* authored parameter of that name; for UsdPreviewSurface neither is
\* renamed.
C18_RenamingConsistent ==
    \A x \in ReservedNames :
        BothAuthored(x) =>
            /\ ConnectionRenamed(x) <=> ParameterRenamed(x)
            /\ net0.nodes[TerminalNode].type = ND_UsdPreviewSurface_surfaceshader
                   => ~ConnectionRenamed(x) /\ ~ParameterRenamed(x)

====
